---- MODULE Spec2Model ----
(***************************************************************************)
(* RoboDibuix: the command tree, the execution engine (executeCommand /    *)
(* runSequence) and the run controller (handleRun / handleStop /           *)
(* handleClearAll) of App, together with the guards the rendered controls  *)
(* put on them.                                                            *)
(*                                                                         *)
(* JavaScript runs one macrotask at a time: a click handler, or the        *)
(* continuation of an async function whose setTimeout has expired.  A      *)
(* continuation runs (through its chain of microtasks) until the function  *)
(* awaits the next setTimeout or returns, so it is one action here.        *)
(* timers is the queue of pending setTimeout callbacks, all of the same    *)
(* 500 ms duration and therefore served first in, first out.               *)
(***************************************************************************)
EXTENDS Integers, Sequences, FiniteSets, TLC

(* ------------------------------ bounds --------------------------------- *)
\* number of commands ever created (uuidv4 calls)
MaxNodes == 3
\* number of runs ever started (handleRun calls that pass the empty check)
MaxRuns == 2
\* number of edits that change a value, or that are made once a run has been
\* started (of the program or of the active container)
MaxEdits == 1
\* largest count of the Repeat, and largest distance of a move in cells, of
\* the programs the engine is given directly
MaxCount == 2
MaxValue == 2

(* --------------------------- program constants ------------------------- *)
GRID_SIZE == 40
CANVAS_WIDTH == 800
CANVAS_HEIGHT == 600
START_X == CANVAS_WIDTH \div 2
START_Y == CANVAS_HEIGHT \div 2
START_ANGLE == -90

\* string | null: command ids are 1, 2, ...; Null stands for null / undefined
Null == 0

CommandType == {"FORWARD", "BACKWARD", "TURN_RIGHT", "TURN_LEFT", "REPEAT"}

IsMove(type) == type \in {"FORWARD", "BACKWARD"}
IsTurn(type) == type \in {"TURN_LEFT", "TURN_RIGHT"}

\* value of a new command
DefaultValue(type) ==
  IF type = "REPEAT" THEN 2 ELSE IF IsTurn(type) THEN 90 ELSE 1

\* values typed into a command's number input (parseInt(...) || 0)
InputValues(type) ==
  IF type = "REPEAT" THEN {0} ELSE IF IsTurn(type) THEN {180} ELSE {2}

\* a Command; children is read only where hasChildren (children !== undefined)
Command(id, type, value, hasChildren, children) ==
  [id |-> id, type |-> type, value |-> value,
   hasChildren |-> hasChildren, children |-> children]

RobotState(x, y, angle) == [x |-> x, y |-> y, angle |-> angle, penDown |-> TRUE]
Point(x, y) == [x |-> x, y |-> y]

InitialRobot == RobotState(START_X, START_Y, START_ANGLE)
InitialPath == <<Point(START_X, START_Y)>>

(* ------------------------------ geometry ------------------------------- *)
\* Math.cos(toRad(deg)) and Math.sin(toRad(deg)) at the multiples of 90
\* degrees, the only angles the bounded inputs produce (the floating-point
\* results differ from these by less than 1e-15, the rounding tolerance the
\* geometry is specified with)
Cos(deg) ==
  CASE deg % 360 = 0 -> 1
    [] deg % 360 = 90 -> 0
    [] deg % 360 = 180 -> -1
    [] deg % 360 = 270 -> 0

Sin(deg) ==
  CASE deg % 360 = 0 -> 0
    [] deg % 360 = 90 -> 1
    [] deg % 360 = 180 -> 0
    [] deg % 360 = 270 -> -1

\* the move case taking value as a distance in canvas units, not in cells
MoveRobot_NoGrid(cmd, robot) ==
  LET distance == cmd.value
      direction == IF cmd.type = "FORWARD" THEN 1 ELSE -1
      dx == Cos(robot.angle) * distance * direction
      dy == Sin(robot.angle) * distance * direction
  IN [robot EXCEPT !.x = robot.x + dx, !.y = robot.y + dy]

\* the FORWARD / BACKWARD case of executeCommand
MoveRobot(cmd, robot) ==
  LET distance == cmd.value * GRID_SIZE
      direction == IF cmd.type = "FORWARD" THEN 1 ELSE -1
      dx == Cos(robot.angle) * distance * direction
      dy == Sin(robot.angle) * distance * direction
  IN [robot EXCEPT !.x = robot.x + dx, !.y = robot.y + dy]

\* the turn case keeping the angle within 0..359
TurnRobot_Normalised(cmd, robot) ==
  LET turn == IF cmd.type = "TURN_RIGHT" THEN 1 ELSE -1
  IN [robot EXCEPT !.angle = (robot.angle + cmd.value * turn) % 360]

\* the TURN_LEFT / TURN_RIGHT case of executeCommand
TurnRobot(cmd, robot) ==
  LET turn == IF cmd.type = "TURN_RIGHT" THEN 1 ELSE -1
  IN [robot EXCEPT !.angle = robot.angle + cmd.value * turn]

(* ---------------------------- command tree ----------------------------- *)
\* (list) => [newCmd, ...list]
updateFn_Prepend(list, newCmd) == <<newCmd>> \o list

\* (list) => [...list, newCmd]
updateFn(list, newCmd) == Append(list, newCmd)

RECURSIVE updateTree(_, _, _)
updateTree(cmds, parentId, newCmd) ==
  IF parentId = Null
  THEN updateFn(cmds, newCmd)
  ELSE [k \in 1..Len(cmds) |->
         LET cmd == cmds[k] IN
         IF cmd.id = parentId
         THEN [cmd EXCEPT !.hasChildren = TRUE,
                          !.children = updateFn(IF cmd.hasChildren
                                                THEN cmd.children ELSE <<>>,
                                                newCmd)]
         ELSE IF cmd.hasChildren
         THEN [cmd EXCEPT !.children = updateTree(cmd.children, parentId, newCmd)]
         ELSE cmd]

\* recursiveFilter that filters the list it is given and no child list
recursiveFilter_TopOnly(list, id) == SelectSeq(list, LAMBDA c : c.id # id)

RECURSIVE recursiveFilter(_, _)
recursiveFilter(list, id) ==
  LET kept == SelectSeq(list, LAMBDA c : c.id # id)
  IN [k \in 1..Len(kept) |->
       IF kept[k].hasChildren
       THEN [kept[k] EXCEPT !.children = recursiveFilter(kept[k].children, id)]
       ELSE kept[k]]

RECURSIVE recursiveUpdate(_, _, _)

\* recursiveUpdate that maps the list it is given and no child list
recursiveUpdate_TopOnly(list, id, value) ==
  [k \in 1..Len(list) |->
    LET c == list[k] IN
    IF c.id = id THEN [c EXCEPT !.value = value] ELSE c]

\* recursiveUpdate whose last branch returns { ...c, value } as well
recursiveUpdate_Leaves(list, id, value) ==
  [k \in 1..Len(list) |->
    LET c == list[k] IN
    IF c.id = id THEN [c EXCEPT !.value = value]
    ELSE IF c.hasChildren
    THEN [c EXCEPT !.children = recursiveUpdate(c.children, id, value)]
    ELSE [c EXCEPT !.value = value]]

recursiveUpdate(list, id, value) ==
  [k \in 1..Len(list) |->
    LET c == list[k] IN
    IF c.id = id THEN [c EXCEPT !.value = value]
    ELSE IF c.hasChildren
    THEN [c EXCEPT !.children = recursiveUpdate(c.children, id, value)]
    ELSE c]

\* the ids of the commands of the result that are objects the call creates
\* ({ ...cmd, ... }), the others being the objects of the argument: for
\* updateTree, recursiveFilter and recursiveUpdate
RECURSIVE updateTreeNew(_, _)
updateTreeNew(cmds, parentId) ==
  IF parentId = Null THEN {}
  ELSE UNION { IF cmds[k].id = parentId THEN {cmds[k].id}
               ELSE IF cmds[k].hasChildren
               THEN {cmds[k].id} \cup updateTreeNew(cmds[k].children, parentId)
               ELSE {}
               : k \in 1..Len(cmds) }

RECURSIVE recursiveFilterNew(_, _)
recursiveFilterNew(list, id) ==
  LET kept == SelectSeq(list, LAMBDA c : c.id # id)
  IN UNION { {kept[k].id} \cup (IF kept[k].hasChildren
                                THEN recursiveFilterNew(kept[k].children, id)
                                ELSE {})
             : k \in 1..Len(kept) }

RECURSIVE recursiveUpdateNew(_, _)
recursiveUpdateNew(list, id) ==
  UNION { IF list[k].id = id THEN {list[k].id}
          ELSE IF list[k].hasChildren
          THEN {list[k].id} \cup recursiveUpdateNew(list[k].children, id)
          ELSE {}
          : k \in 1..Len(list) }

\* findById of getVisibleCommands: <<>> for null, <<c>> for the command found
RECURSIVE findById(_, _)
findById(list, id) ==
  IF list = <<>> THEN <<>>
  ELSE LET c == Head(list) IN
       IF c.id = id THEN <<c>>
       ELSE LET found == IF c.hasChildren THEN findById(c.children, id) ELSE <<>>
            IN IF found # <<>> THEN found ELSE findById(Tail(list), id)

getVisibleCommands(cmds, containerId) ==
  IF containerId = Null THEN cmds
  ELSE LET container == findById(cmds, containerId) IN
       IF container # <<>>
       THEN (IF container[1].hasChildren THEN container[1].children ELSE <<>>)
       ELSE <<>>

(* ------------------------------- state --------------------------------- *)
VARIABLES
  commands,            \* useState<Command[]>
  activeContainerId,   \* useState<string | null>
  robotState,          \* useState<RobotState>
  path,                \* useState<Point[]>
  isPlaying,           \* useState(false)
  stopRef,             \* useRef(false).current
  runs,                \* the handleRun invocations: runs[r] for r in 1..Len(runs)
  timers,              \* pending setTimeout callbacks, by the run awaiting them
  nextId,              \* next value of uuidv4()
  edits,               \* value updates, and edits made after a run was started
  applied,             \* commands executed and poses published since the last reset
  lastOp               \* the handler or engine step taken last

vars == <<commands, activeContainerId, robotState, path, isPlaying, stopRef,
          runs, timers, nextId, edits, applied, lastOp>>

NoneApplied == [moves |-> 0, turns |-> 0, poses |-> 0]

Init ==
  /\ commands = <<>>
  /\ activeContainerId = Null
  /\ robotState = InitialRobot
  /\ path = InitialPath
  /\ isPlaying = FALSE
  /\ stopRef = FALSE
  /\ runs = <<>>
  /\ timers = <<>>
  /\ nextId = 1
  /\ edits = 0
  /\ applied = NoneApplied
  /\ lastOp = "init"

(* ------------------------------ handlers ------------------------------- *)
\* runs that have not returned from handleRun
InFlight == {r \in 1..Len(runs) : runs[r].pc \in {"startDelay", "engine"}}

\* a handleRun invocation suspended at its initial delay; program is the
\* commands value its closure captured
NewRun(program) ==
  [program |-> program, pc |-> "startDelay", stack |-> <<>>,
   log |-> <<>>, burst |-> 0, stopped |-> FALSE, logAtStop |-> 0,
   pathAtEnd |-> <<>>]

\* what is kept of the earlier invocations when a new one begins: of those
\* that have returned, whether they were stopped
Returned(run) ==
  [program |-> <<>>, pc |-> "returned", stack |-> <<>>, log |-> <<>>,
   burst |-> 0, stopped |-> run.stopped, logAtStop |-> 0,
   pathAtEnd |-> <<>>]
Earlier ==
  [r \in 1..Len(runs) |-> IF r \in InFlight THEN runs[r] ELSE Returned(runs[r])]

handleAddCommand(type) ==
  /\ nextId <= MaxNodes
  /\ commands' = updateTree(commands, activeContainerId,
                            Command(nextId, type, DefaultValue(type),
                                    type = "REPEAT", <<>>))
  /\ nextId' = nextId + 1
  /\ lastOp' = "handleAddCommand"
  /\ UNCHANGED <<activeContainerId, robotState, path, isPlaying, stopRef,
                 runs, timers, applied>>

handleRemoveCommand(id) ==
  /\ commands' = recursiveFilter(commands, id)
  /\ lastOp' = "handleRemoveCommand"
  /\ UNCHANGED <<activeContainerId, robotState, path, isPlaying, stopRef,
                 runs, timers, nextId, applied>>

handleUpdateCommand(id, value) ==
  /\ commands' = recursiveUpdate(commands, id, value)
  /\ lastOp' = "handleUpdateCommand"
  /\ UNCHANGED <<activeContainerId, robotState, path, isPlaying, stopRef,
                 runs, timers, nextId, applied>>

setActiveContainerId(id) ==
  /\ activeContainerId' = id
  /\ lastOp' = "setActiveContainerId"
  /\ UNCHANGED <<commands, robotState, path, isPlaying, stopRef,
                 runs, timers, nextId, applied>>

\* handleClearAll without setActiveContainerId(null)
handleClearAll_KeepsContainer ==
  /\ commands' = <<>>
  /\ path' = InitialPath
  /\ robotState' = InitialRobot
  /\ isPlaying' = FALSE
  /\ applied' = NoneApplied
  /\ lastOp' = "handleClearAll"
  /\ UNCHANGED <<activeContainerId, stopRef, runs, timers, nextId, edits>>

handleClearAll ==
  /\ commands' = <<>>
  /\ path' = InitialPath
  /\ robotState' = InitialRobot
  /\ activeContainerId' = Null
  /\ isPlaying' = FALSE
  /\ applied' = NoneApplied
  /\ lastOp' = "handleClearAll"
  /\ UNCHANGED <<stopRef, runs, timers, nextId, edits>>

\* resetPosition without setPath
resetPosition_KeepsPath ==
  /\ robotState' = InitialRobot
  /\ path' = path
  /\ applied' = applied

\* resetPosition, as handleRun uses it
resetPosition ==
  /\ robotState' = InitialRobot
  /\ path' = InitialPath
  /\ applied' = NoneApplied

\* handleRun without its check of commands.length
handleRun_NoEmptyCheck ==
  /\ lastOp' = "handleRun"
  /\ Len(runs) < MaxRuns
  /\ isPlaying' = TRUE
  /\ stopRef' = FALSE
  /\ resetPosition
  /\ runs' = Append(Earlier, NewRun(commands))
  /\ timers' = Append(timers, Len(runs) + 1)
  /\ UNCHANGED <<commands, activeContainerId, nextId, edits>>

\* handleRun up to its first await
handleRun ==
  /\ lastOp' = "handleRun"
  /\ IF Len(commands) = 0
     THEN UNCHANGED <<commands, activeContainerId, robotState, path, isPlaying,
                      stopRef, runs, timers, nextId, edits, applied>>
     ELSE /\ Len(runs) < MaxRuns
          /\ isPlaying' = TRUE
          /\ stopRef' = FALSE
          /\ resetPosition
          /\ runs' = Append(Earlier, NewRun(commands))
          /\ timers' = Append(timers, Len(runs) + 1)
          /\ UNCHANGED <<commands, activeContainerId, nextId, edits>>

\* the run once handleStop has been called while it is in flight: stopped, with
\* logAtStop the number of commands it had applied at the first such call
StoppedRun(run) ==
  IF run.stopped THEN run
  ELSE [run EXCEPT !.stopped = TRUE, !.logAtStop = Len(run.log)]

\* handleStop calling resetPosition as well
handleStop_Resets ==
  /\ stopRef' = TRUE
  /\ isPlaying' = FALSE
  /\ resetPosition
  /\ runs' = [r \in 1..Len(runs) |->
               IF r \in InFlight THEN StoppedRun(runs[r]) ELSE runs[r]]
  /\ lastOp' = "handleStop"
  /\ UNCHANGED <<commands, activeContainerId, timers, nextId, edits>>

handleStop ==
  /\ stopRef' = TRUE
  /\ isPlaying' = FALSE
  /\ runs' = [r \in 1..Len(runs) |->
               IF r \in InFlight THEN StoppedRun(runs[r]) ELSE runs[r]]
  /\ lastOp' = "handleStop"
  /\ UNCHANGED <<commands, activeContainerId, robotState, path, timers,
                 nextId, edits, applied>>

(* ------------------------------- engine -------------------------------- *)
\* the frames of a run's call stack, innermost last
SeqFrame(sequence, startState) ==
  [fn |-> "runSequence", sequence |-> sequence, idx |-> 1,
   currentState |-> startState]

CmdFrame(cmd, currentRobot) ==
  [fn |-> "executeCommand", cmd |-> cmd, nextRobot |-> currentRobot,
   i |-> 0, pc |-> "entry"]

Top(stack) == stack[Len(stack)]
Pop(stack) == SubSeq(stack, 1, Len(stack) - 1)

\* the frame of the caller once the call it awaits has returned value:
\* runSequence stores it and moves to the next command; the REPEAT loop of
\* executeCommand stores it, leaves the loop if stopRef is set and otherwise
\* goes on to the next iteration
Resume(caller, value) ==
  IF caller.fn = "runSequence"
  THEN [caller EXCEPT !.currentState = value, !.idx = caller.idx + 1]
  ELSE [caller EXCEPT !.nextRobot = value,
                      !.pc = IF stopRef THEN "ret" ELSE "loop",
                      !.i = IF stopRef THEN caller.i ELSE caller.i + 1]

\* the innermost call returns value; the outermost runSequence returns to
\* handleRun, which leaves no frame
Return(stack, value) ==
  IF Len(stack) = 1 THEN <<>>
  ELSE Append(Pop(Pop(stack)), Resume(stack[Len(stack) - 1], value))

\* runSequence at the head of its loop: leave it when the sequence is
\* exhausted or stopRef is set, otherwise call executeCommand
runSequence(stack) ==
  LET f == Top(stack) IN
  IF f.idx <= Len(f.sequence) /\ ~stopRef
  THEN Append(stack, CmdFrame(f.sequence[f.idx], f.currentState))
  ELSE Return(stack, f.currentState)

\* executeCommand with i <= cmd.value as the condition of its loop
executeCommand_LoopOnceMore(stack) ==
  LET f == Top(stack) IN
  CASE f.pc = "entry" ->
         IF stopRef THEN Return(stack, f.nextRobot)
         ELSE [stack EXCEPT ![Len(stack)].pc = "delay"]
    [] f.pc = "loop" ->
         IF f.i <= f.cmd.value
         THEN Append(stack, SeqFrame(f.cmd.children, f.nextRobot))
         ELSE [stack EXCEPT ![Len(stack)].pc = "ret"]
    [] f.pc = "ret" -> Return(stack, f.nextRobot)

\* executeCommand between two awaits: at its entry (return currentRobot if
\* stopRef is set, else await the inter-step delay), at the head of the
\* REPEAT loop, and at its return
executeCommand(stack) ==
  LET f == Top(stack) IN
  CASE f.pc = "entry" ->
         IF stopRef THEN Return(stack, f.nextRobot)
         ELSE [stack EXCEPT ![Len(stack)].pc = "delay"]
    [] f.pc = "loop" ->
         IF f.i < f.cmd.value
         THEN Append(stack, SeqFrame(f.cmd.children, f.nextRobot))
         ELSE [stack EXCEPT ![Len(stack)].pc = "ret"]
    [] f.pc = "ret" -> Return(stack, f.nextRobot)

\* a run is suspended when it awaits a setTimeout, and over when handleRun
\* has its result
Suspended(stack) ==
  stack # <<>> /\ Top(stack).fn = "executeCommand" /\ Top(stack).pc = "delay"

\* the continuation of a run: its steps up to the next await of a timer or to
\* the end of the run, counted (s is the value of stack, computed once)
RECURSIVE Continue(_, _)
Continue(stack, steps) ==
  CHOOSE c \in
    { IF s = <<>> \/ Suspended(s)
      THEN [stack |-> s, steps |-> steps]
      ELSE Continue(IF Top(s).fn = "runSequence"
                    THEN runSequence(s) ELSE executeCommand(s),
                    steps + 1) : s \in {stack} } : TRUE

\* the run whose timer expires next
Due == IF timers # <<>> THEN Head(timers) ELSE 0

\* the run after the continuation c: suspended again, or over (pathAtEnd is
\* the path it leaves); burst is the number of steps c took
After(run, c, log, endPath) ==
  [run EXCEPT !.pc = IF c.stack = <<>> THEN "done" ELSE "engine",
              !.stack = c.stack,
              !.log = log,
              !.burst = c.steps,
              !.pathAtEnd = IF c.stack = <<>> THEN endPath ELSE <<>>]

\* Proceed without the setIsPlaying(false) that ends handleRun
Proceed_StaysPlaying(stack, log, endPath) ==
  LET c == Continue(stack, 1) IN
  /\ runs' = [runs EXCEPT ![Due] = After(@, c, log, endPath)]
  /\ timers' = IF c.stack = <<>> THEN Tail(timers) ELSE Append(Tail(timers), Due)
  /\ isPlaying' = isPlaying

\* the rest of a timer callback of run Due, from stack on: the engine runs to
\* its next await, where it sets a new timer, or to the end of handleRun,
\* which calls setIsPlaying(false)
Proceed(stack, log, endPath) ==
  LET c == Continue(stack, 1) IN
  /\ runs' = [runs EXCEPT ![Due] = After(@, c, log, endPath)]
  /\ timers' = IF c.stack = <<>> THEN Tail(timers) ELSE Append(Tail(timers), Due)
  /\ isPlaying' = IF c.stack = <<>> THEN FALSE ELSE isPlaying

\* the initial delay expires and runSequence is given the program as it is
\* stored by then
StartDelayFires_StoredProgram ==
  /\ Due # 0
  /\ runs[Due].pc = "startDelay"
  /\ Proceed(<<SeqFrame(commands, InitialRobot)>>, runs[Due].log, path)
  /\ lastOp' = "StartDelayFires"
  /\ UNCHANGED <<commands, activeContainerId, robotState, path,
                 stopRef, nextId, edits, applied>>

\* the initial delay of handleRun expires: runSequence(commands, initialState)
StartDelayFires ==
  /\ Due # 0
  /\ runs[Due].pc = "startDelay"
  /\ Proceed(<<SeqFrame(runs[Due].program, InitialRobot)>>, runs[Due].log, path)
  /\ lastOp' = "StartDelayFires"
  /\ UNCHANGED <<commands, activeContainerId, robotState, path,
                 stopRef, nextId, edits, applied>>

\* the command whose inter-step delay expires next
DueFrame == Top(runs[Due].stack)
DelayDue ==
  /\ Due # 0
  /\ runs[Due].pc = "engine"

\* the frame of a leaf command that has produced robot
Done(stack, robot) ==
  [stack EXCEPT ![Len(stack)].nextRobot = robot, ![Len(stack)].pc = "ret"]

\* the record of a leaf command and of the pose it published
Published(cmd, robot) == [id |-> cmd.id, type |-> cmd.type, robot |-> robot]

\* the delay expires, case FORWARD / BACKWARD:
\* setRobotState(nextRobot); setPath(prev => [...prev, {x, y}])
ExecMove ==
  /\ DelayDue
  /\ IsMove(DueFrame.cmd.type)
  /\ LET nextRobot == MoveRobot(DueFrame.cmd, DueFrame.nextRobot) IN
     /\ robotState' = nextRobot
     /\ path' = Append(path, Point(nextRobot.x, nextRobot.y))
     /\ Proceed(Done(runs[Due].stack, nextRobot),
                Append(runs[Due].log, Published(DueFrame.cmd, nextRobot)),
                path')
  /\ applied' = [applied EXCEPT !.moves = @ + 1, !.poses = @ + 1]
  /\ lastOp' = "ExecMove"
  /\ UNCHANGED <<commands, activeContainerId, stopRef, nextId, edits>>

\* the turn case calling setPath as the move case does
ExecTurn_AppendsPoint ==
  /\ DelayDue
  /\ IsTurn(DueFrame.cmd.type)
  /\ LET nextRobot == TurnRobot(DueFrame.cmd, DueFrame.nextRobot) IN
     /\ robotState' = nextRobot
     /\ path' = Append(path, Point(nextRobot.x, nextRobot.y))
     /\ Proceed(Done(runs[Due].stack, nextRobot),
                Append(runs[Due].log, Published(DueFrame.cmd, nextRobot)),
                path')
  /\ applied' = [applied EXCEPT !.turns = @ + 1, !.poses = @ + 1]
  /\ lastOp' = "ExecTurn"
  /\ UNCHANGED <<commands, activeContainerId, stopRef, nextId, edits>>

\* the delay expires, case TURN_LEFT / TURN_RIGHT: setRobotState(nextRobot)
ExecTurn ==
  /\ DelayDue
  /\ IsTurn(DueFrame.cmd.type)
  /\ LET nextRobot == TurnRobot(DueFrame.cmd, DueFrame.nextRobot) IN
     /\ robotState' = nextRobot
     /\ Proceed(Done(runs[Due].stack, nextRobot),
                Append(runs[Due].log, Published(DueFrame.cmd, nextRobot)),
                path)
  /\ applied' = [applied EXCEPT !.turns = @ + 1, !.poses = @ + 1]
  /\ lastOp' = "ExecTurn"
  /\ UNCHANGED <<commands, activeContainerId, path, stopRef, nextId,
                 edits>>

\* the delay expires, case REPEAT: enter the loop if cmd.children is defined
ExecRepeat ==
  /\ DelayDue
  /\ DueFrame.cmd.type = "REPEAT"
  /\ Proceed([runs[Due].stack EXCEPT ![Len(runs[Due].stack)].pc =
                IF DueFrame.cmd.hasChildren THEN "loop" ELSE "ret"],
             runs[Due].log, path)
  /\ lastOp' = "ExecRepeat"
  /\ UNCHANGED <<commands, activeContainerId, robotState, path, stopRef,
                 nextId, edits, applied>>

Engine ==
  \/ StartDelayFires
  \/ ExecMove
  \/ ExecTurn
  \/ ExecRepeat

(* ------------------------- the rendered controls ----------------------- *)
\* an edit that counts: it changes a value, or a run has been started
Edit(counts, handler) ==
  /\ counts => edits < MaxEdits
  /\ handler
  /\ edits' = IF counts THEN edits + 1 ELSE edits

Late == Len(runs) > 0

\* the commands the Timeline shows
Visible == getVisibleCommands(commands, activeContainerId)

\* CommandPalette button, disabled={isPlaying}
ClickPalette ==
  /\ ~isPlaying
  /\ \E type \in CommandType : Edit(Late, handleAddCommand(type))

\* a remove button for every command of the program, shown or not
ClickRemove_AnyCommand ==
  /\ \E id \in 1..MaxNodes : Edit(Late, handleRemoveCommand(id))

\* CommandBlock remove button
ClickRemove ==
  /\ \E k \in 1..Len(Visible) : Edit(Late, handleRemoveCommand(Visible[k].id))

\* CommandBlock number input
ChangeValue ==
  /\ \E k \in 1..Len(Visible) :
       \E value \in InputValues(Visible[k].type) :
         Edit(TRUE, handleUpdateCommand(Visible[k].id, value))

\* the nested-edit button rendered for every command
ClickEnterNested_AnyBlock ==
  /\ \E k \in 1..Len(Visible) :
       Edit(Late, setActiveContainerId(Visible[k].id))

\* CommandBlock nested-edit button, rendered for REPEAT commands
ClickEnterNested ==
  /\ \E k \in 1..Len(Visible) :
       /\ Visible[k].type = "REPEAT"
       /\ Edit(Late, setActiveContainerId(Visible[k].id))

\* Timeline back button, rendered in the nested view
ClickGoBack ==
  /\ activeContainerId # Null
  /\ Edit(Late, setActiveContainerId(Null))

\* run button, rendered while !isPlaying, disabled={commands.length === 0}
ClickRun ==
  /\ ~isPlaying
  /\ Len(commands) # 0
  /\ handleRun

\* stop button, rendered while isPlaying
ClickStop ==
  /\ isPlaying
  /\ handleStop

\* clear button, disabled={isPlaying}
ClickClear ==
  /\ ~isPlaying
  /\ handleClearAll

Next ==
  \/ ClickPalette
  \/ ClickRemove
  \/ ChangeValue
  \/ ClickEnterNested
  \/ ClickGoBack
  \/ ClickRun
  \/ ClickStop
  \/ ClickClear
  \/ Engine

Spec == Init /\ [][Next]_vars

(* ------------------- the handlers called directly ---------------------- *)
\* handleAddCommand, handleRun, handleStop and handleClearAll called in any
\* state, whatever the controls would render, with the Timeline's navigation
AddCommand == \E type \in CommandType : Edit(Late, handleAddCommand(type))

NextAPI ==
  \/ AddCommand
  \/ ClickEnterNested
  \/ ClickGoBack
  \/ handleRun
  \/ handleStop
  \/ handleClearAll
  \/ Engine

SpecAPI == Init /\ [][NextAPI]_vars

(* ------------------------- runs under a fair timer --------------------- *)
\* a program is built, then run, stopped and run again; a setTimeout that is
\* pending does fire
BuildProgram == ~Late /\ (ClickPalette \/ ClickEnterNested \/ ClickGoBack)

NextLive ==
  \/ BuildProgram
  \/ ClickRun
  \/ ClickStop
  \/ Engine

SpecLive == Init /\ [][NextLive]_vars /\ WF_vars(Engine)

(* ---------------- the functions applied to any argument ---------------- *)
\* the ids of the commands that can exist, and one that never does
Ids == 1..(MaxNodes + 1)

\* values given to a command by handleUpdateCommand
UpdateValues(id) ==
  LET found == findById(commands, id) IN
  IF found = <<>> THEN {0}
  ELSE IF found[1].type = "REPEAT" THEN {0, 3}
  ELSE InputValues(found[1].type)

\* updateTree, recursiveFilter and recursiveUpdate with any id, present or
\* not, Repeat or not, through the handlers that apply them, until runSequence
\* is called on the program they have made
CallSetActiveContainer ==
  /\ runs = <<>>
  /\ \E id \in {Null} \cup Ids :
       /\ id # activeContainerId
       /\ Edit(FALSE, setActiveContainerId(id))

CallAddCommand ==
  /\ runs = <<>>
  /\ \E type \in CommandType : Edit(FALSE, handleAddCommand(type))

CallRemoveCommand ==
  /\ runs = <<>>
  /\ \E id \in Ids : Edit(TRUE, handleRemoveCommand(id))

CallUpdateCommand ==
  /\ runs = <<>>
  /\ \E id \in Ids : \E value \in UpdateValues(id) :
       Edit(TRUE, handleUpdateCommand(id, value))

\* the pose runSequence is called with: the origin, facing angle 0
FacingEast == RobotState(START_X, START_Y, 0)

\* runSequence(commands, FacingEast) called directly, up to its first await
CallRunSequence ==
  /\ runs = <<>>
  /\ LET c == Continue(<<SeqFrame(commands, FacingEast)>>, 1) IN
     /\ runs' = <<After(NewRun(commands), c, <<>>, path)>>
     /\ timers' = IF c.stack = <<>> THEN <<>> ELSE <<1>>
  /\ lastOp' = "runSequence"
  /\ UNCHANGED <<commands, activeContainerId, robotState, path, isPlaying,
                 stopRef, nextId, edits, applied>>

NextFn ==
  \/ CallSetActiveContainer
  \/ CallAddCommand
  \/ CallRemoveCommand
  \/ CallUpdateCommand
  \/ CallRunSequence
  \/ ExecMove
  \/ ExecTurn
  \/ ExecRepeat

SpecFn == Init /\ [][NextFn]_vars

(* -------------- the engine on a move and a Repeat of two leaves -------- *)
\* a leaf command, and a REPEAT command with its children
Leaf(id, type, value) == Command(id, type, value, FALSE, <<>>)
Block(id, value, children) == Command(id, "REPEAT", value, TRUE, children)

\* the programs [move, Repeat(n, [turn, move])]
MoveThenLoop ==
  { <<Leaf(1, m1, v1), Block(2, n, <<Leaf(3, t, a), Leaf(4, m2, v2)>>)>> :
      m1 \in {"FORWARD", "BACKWARD"}, v1 \in 1..MaxValue, n \in 0..MaxCount,
      t \in {"TURN_RIGHT", "TURN_LEFT"}, a \in {90, 180},
      m2 \in {"FORWARD", "BACKWARD"}, v2 \in 1..MaxValue }

InitLoop ==
  /\ commands \in MoveThenLoop
  /\ activeContainerId = Null
  /\ robotState = InitialRobot
  /\ path = InitialPath
  /\ isPlaying = FALSE
  /\ stopRef = FALSE
  /\ runs = <<>>
  /\ timers = <<>>
  /\ nextId = 5
  /\ edits = 0
  /\ applied = NoneApplied
  /\ lastOp = "init"

\* the pose at (0, 0), facing angle 0
ZeroPose == RobotState(0, 0, 0)

\* runSequence(commands, ZeroPose) called directly, up to its first await
RunFromZero ==
  /\ runs = <<>>
  /\ LET c == Continue(<<SeqFrame(commands, ZeroPose)>>, 1) IN
     /\ runs' = <<After(NewRun(commands), c, <<>>, path)>>
     /\ timers' = IF c.stack = <<>> THEN <<>> ELSE <<1>>
  /\ lastOp' = "runSequence"
  /\ UNCHANGED <<commands, activeContainerId, robotState, path, isPlaying,
                 stopRef, nextId, edits, applied>>

NextLoop ==
  \/ RunFromZero
  \/ ExecMove
  \/ ExecTurn
  \/ ExecRepeat

SpecLoop == InitLoop /\ [][NextLoop]_vars

(* ------------------- the run a program is meant to produce ------------- *)
IsPrefix(s, t) == Len(s) <= Len(t) /\ SubSeq(t, 1, Len(s)) = s
IsStrictPrefix(s, t) == IsPrefix(s, t) /\ Len(s) < Len(t)

RECURSIVE Times(_, _)
Times(n, s) == IF n <= 0 THEN <<>> ELSE s \o Times(n - 1, s)

\* the leaf commands of a command list in depth-first, declaration order, the
\* children of a Repeat(n) taken n times in a row
RECURSIVE Expansion(_)
Expansion(list) ==
  IF list = <<>> THEN <<>>
  ELSE LET c == Head(list) IN
       (IF c.type = "REPEAT"
        THEN Times(c.value, IF c.hasChildren THEN Expansion(c.children) ELSE <<>>)
        ELSE <<c>>) \o Expansion(Tail(list))

\* the poses the leaves publish one after the other, from robot on
RECURSIVE Poses(_, _)
Poses(leaves, robot) ==
  IF leaves = <<>> THEN <<>>
  ELSE LET c == Head(leaves)
           next == IF IsMove(c.type) THEN MoveRobot(c, robot) ELSE TurnRobot(c, robot)
       IN <<Published(c, next)>> \o Poses(Tail(leaves), next)

\* what an uncancelled run of program publishes, and the path it draws
FullLog(program) == Poses(Expansion(program), InitialRobot)

Samples(log) ==
  LET moves == SelectSeq(log, LAMBDA e : IsMove(e.type))
  IN [k \in 1..Len(moves) |-> Point(moves[k].robot.x, moves[k].robot.y)]

FullPath(program) == InitialPath \o Samples(FullLog(program))

\* nesting depth of the Repeat commands of a command list
RECURSIVE Depth(_)
Depth(list) ==
  IF list = <<>> THEN 0
  ELSE LET c == Head(list)
           d == IF c.hasChildren THEN 1 + Depth(c.children) ELSE 0
           rest == Depth(Tail(list))
       IN IF d > rest THEN d ELSE rest

\* the runs whose record is kept whole
Started == {r \in 1..Len(runs) : runs[r].pc # "returned"}

(* ------------------------------- claims -------------------------------- *)
\* C1: at most one run is in flight at any time: start does nothing while a
\* run started earlier has not finished unwinding.
C1_OneRunInFlight == Cardinality(InFlight) <= 1

\* C2: a run that stop() was called on publishes nothing any more: no pose
\* update and no path sample follows the stop.
C2_NothingPublishedAfterStop ==
  [][\A r \in InFlight :
       runs[r].stopped => runs'[r].log = runs[r].log]_vars

\* stop was called on the run when the uncancelled run had a movement left
\* to execute
StoppedMidRun(run) ==
  /\ run.stopped
  /\ run.logAtStop <= Len(FullLog(run.program))
  /\ Len(Samples(SubSeq(FullLog(run.program), 1, run.logAtStop)))
       < Len(Samples(FullLog(run.program)))

\* C3: the path left when a run that was stopped mid-run has unwound is a
\* strict prefix of the path an uncancelled run of the same program draws.
C3_StoppedPathStrictPrefix ==
  \A r \in Started :
    runs[r].pc = "done" /\ StoppedMidRun(runs[r])
      => IsStrictPrefix(runs[r].pathAtEnd, FullPath(runs[r].program))

\* the engine steps between two awaits that the shape of a program accounts
\* for, whatever its Repeat counts
StepBound(program) == 3 * Depth(program) + 4

\* C4: a run reaches a point where a stop request is taken within a number of
\* engine steps that its Repeat counts do not enter into.
C4_BoundedStepsToAwait ==
  \A r \in Started : runs[r].burst <= StepBound(runs[r].program)

\* C5: the commands a run has applied are, in order, the first ones of the
\* depth-first expansion of its program; a run that was not stopped ends having
\* applied exactly that expansion, each pose computed from the one before, and
\* with no other run about it leaves the path of that expansion.
C5_TraversalOrder ==
  \A r \in Started :
    /\ IsPrefix(runs[r].log, FullLog(runs[r].program))
    /\ runs[r].pc = "done" /\ ~runs[r].stopped
         => /\ runs[r].log = FullLog(runs[r].program)
            /\ (\A q \in 1..Len(runs) : q # r => runs[q].pc = "returned")
                 => runs[r].pathAtEnd = FullPath(runs[r].program)

\* an uncancelled run of two nested Repeat(2) around a leaf has ended
C5_Witness ==
  \E r \in Started :
    /\ runs[r].pc = "done" /\ ~runs[r].stopped
    /\ Len(runs[r].log) = 4
    /\ Depth(runs[r].program) = 2

\* C6: the path starts at the origin and holds one point more than the
\* movements executed since the last reset; a step of the engine for a
\* movement appends exactly the new position and publishes the new pose, one
\* for a turn publishes a pose and appends nothing, one for a Repeat or for the
\* start delay publishes nothing, and only handleRun and handleClearAll ever
\* shorten the path.
C6_PathGrowsByMoves ==
  /\ [](/\ path[1] = Point(START_X, START_Y)
        /\ Len(path) = 1 + applied.moves
        /\ applied.poses = applied.moves + applied.turns)
  /\ [][/\ lastOp' = "ExecMove"
             => /\ path' = Append(path, Point(robotState'.x, robotState'.y))
                /\ applied'.poses = applied.poses + 1
        /\ lastOp' = "ExecTurn"
             => /\ path' = path
                /\ applied'.poses = applied.poses + 1
        /\ lastOp' \in {"ExecRepeat", "StartDelayFires"}
             => /\ path' = path
                /\ robotState' = robotState
                /\ applied' = applied
        /\ lastOp' \notin {"handleRun", "handleClearAll"}
             => IsPrefix(path, path')]_vars

\* a Repeat, two movements and two turns have been executed since the reset
C6_Witness ==
  /\ applied.moves = 2
  /\ applied.turns = 2
  /\ Len(path) = 3
  /\ lastOp = "ExecTurn"

\* the first pose a run publishes is the one its first leaf command makes of
\* the origin pose
FromOrigin(run) ==
  LET first == run.log[1]
      cmd == findById(run.program, first.id)[1]
  IN first.robot = IF IsMove(cmd.type) THEN MoveRobot(cmd, InitialRobot)
                   ELSE TurnRobot(cmd, InitialRobot)

\* C7: handleRun on a non-empty program leaves isPlaying set, the pose at the
\* origin pose, the path at [origin] and stopRef cleared, with a run of the
\* program as it is about to begin; and every run computes its first pose
\* from the origin pose.
C7_StartResetsAndRuns ==
  /\ lastOp = "handleRun" /\ commands # <<>>
       => /\ isPlaying
          /\ robotState = InitialRobot
          /\ path = InitialPath
          /\ ~stopRef
          /\ runs[Len(runs)].pc = "startDelay"
          /\ runs[Len(runs)].program = commands
          /\ timers[Len(timers)] = Len(runs)
  /\ \A r \in Started : runs[r].log # <<>> => FromOrigin(runs[r])

\* a second run, begun after the first had returned, has published a pose
C7_Witness ==
  /\ Len(runs) = 2
  /\ runs[1].pc = "returned"
  /\ runs[2].log # <<>>

\* C8: handleRun on an empty program changes neither isPlaying nor the pose,
\* the path or stopRef, and begins no run.
C8_StartEmptyIsNoOp ==
  [][lastOp' = "handleRun" /\ Len(commands) = 0
       => UNCHANGED <<commands, activeContainerId, robotState, path, isPlaying,
                      stopRef, runs, timers, nextId, edits, applied>>]_vars

\* handleRun was called on an empty program with stopRef set, a run in flight
\* and the robot away from the origin
C8_Witness ==
  /\ lastOp = "handleRun"
  /\ commands = <<>>
  /\ stopRef
  /\ InFlight # {}
  /\ Len(path) > 1

\* C9 as stated: handleStop never changes the pose, the path or the program,
\* and with no run in flight it changes nothing at all, stopRef and isPlaying
\* included.
C9_StopIdleChangesNothing ==
  [][lastOp' = "handleStop"
       => /\ UNCHANGED <<robotState, path, commands>>
          /\ InFlight = {}
               => UNCHANGED <<activeContainerId, isPlaying, stopRef, runs,
                              timers, nextId, edits, applied>>]_vars

\* C9 amended: handleStop never changes the pose, the path or the program;
\* with no run in flight it changes nothing but stopRef, which it sets, and
\* the next handleRun on a non-empty program clears stopRef again.
C9_StopIdleSetsOnlyFlag ==
  /\ [][lastOp' = "handleStop"
          => /\ UNCHANGED <<robotState, path, commands>>
             /\ stopRef'
             /\ InFlight = {}
                  => UNCHANGED <<activeContainerId, isPlaying, runs, timers,
                                 nextId, edits, applied>>]_vars
  /\ [][lastOp' = "handleRun" /\ Len(commands) # 0 => ~stopRef']_vars

\* handleStop was called with no run in flight, the flag clear before it and
\* the robot where a run had left it
C9_Witness ==
  /\ lastOp = "handleStop"
  /\ InFlight = {}
  /\ stopRef
  /\ runs # <<>>
  /\ \A r \in 1..Len(runs) : ~runs[r].stopped
  /\ Len(path) > 1

\* C10: right after handleClearAll, in whatever state it was called, the
\* program is empty, the pose is the origin pose, the path is [origin] and no
\* container is active.
C10_ClearAllResets ==
  lastOp = "handleClearAll"
    => /\ commands = <<>>
       /\ robotState = InitialRobot
       /\ path = InitialPath
       /\ activeContainerId = Null

\* handleClearAll was called with a run in flight that had moved the robot
\* and had not been stopped
C10_Witness ==
  /\ lastOp = "handleClearAll"
  /\ \E r \in InFlight : runs[r].log # <<>> /\ ~runs[r].stopped

\* C11: every run ends, and when it has ended isPlaying is false, whether it
\* consumed its whole program or was stopped; isPlaying is never left set
\* once no run is in flight.
C11_EveryRunEndsIdle ==
  /\ [](InFlight = {} => ~isPlaying)
  /\ \A r \in 1..MaxRuns :
       [](r \in InFlight => <>(r \notin InFlight /\ ~isPlaying))

\* a stopped run has returned and a later run has consumed its whole program
C11_Witness ==
  /\ InFlight = {}
  /\ ~isPlaying
  /\ Len(runs) = 2
  /\ runs[1].stopped
  /\ runs[2].pc = "done" /\ ~runs[2].stopped
  /\ runs[2].log # <<>>

(* ----------------------- a program as a set of nodes ------------------- *)
ChildIds(c) ==
  IF c.hasChildren THEN [k \in 1..Len(c.children) |-> c.children[k].id] ELSE <<>>

\* a command with its parent and the ids of its children in order
Node(c, parent) ==
  [id |-> c.id, type |-> c.type, value |-> c.value, parent |-> parent,
   hasChildren |-> c.hasChildren, kids |-> ChildIds(c)]

RECURSIVE NodesOf(_, _)
NodesOf(list, parent) ==
  UNION { {Node(list[k], parent)}
            \cup (IF list[k].hasChildren
                  THEN NodesOf(list[k].children, list[k].id) ELSE {})
          : k \in 1..Len(list) }

TopIds(list) == [k \in 1..Len(list) |-> list[k].id]
AllIds(list) == {n.id : n \in NodesOf(list, Null)}
Without(ids, id) == SelectSeq(ids, LAMBDA x : x # id)

\* the ids of the node id of the list and of all that is below it
RECURSIVE Below(_, _)
Below(list, id) ==
  UNION { IF list[k].id = id
          THEN {id} \cup (IF list[k].hasChildren
                          THEN AllIds(list[k].children) ELSE {})
          ELSE IF list[k].hasChildren THEN Below(list[k].children, id) ELSE {}
          : k \in 1..Len(list) }

\* only the Repeat commands of the list carry children
RepeatsAloneHaveChildren(list) ==
  \A n \in NodesOf(list, Null) : n.hasChildren <=> n.type = "REPEAT"

\* C12: recursiveFilter on an id of the program, at whatever depth, yields the
\* program without that node and all that is below it; every other node is
\* there with its type, value, parent and place among the siblings left.
C12_RemoveDeletesSubtree ==
  \A id \in AllIds(commands) :
    LET after == recursiveFilter(commands, id)
        kept == {n \in NodesOf(commands, Null) : n.id \notin Below(commands, id)}
    IN /\ TopIds(after) = Without(TopIds(commands), id)
       /\ NodesOf(after, Null) = {[n EXCEPT !.kids = Without(n.kids, id)] : n \in kept}

\* a program in which a Repeat nested in a Repeat has a child of its own
C12_Witness ==
  /\ RepeatsAloneHaveChildren(commands)
  /\ \E n \in NodesOf(commands, Null) :
       /\ n.type = "REPEAT"
       /\ n.parent # Null
       /\ n.kids # <<>>

\* C13: recursiveFilter and recursiveUpdate on an id that is not in the
\* program return the program as it was.
C13_AbsentIdIsNoOp ==
  \A id \in Ids \ AllIds(commands) :
    /\ recursiveFilter(commands, id) = commands
    /\ \A value \in {0, 3} : recursiveUpdate(commands, id, value) = commands

\* handleRemoveCommand was called last, on a nested program of MaxNodes
\* commands of which none is missing
C13_Witness ==
  /\ lastOp = "handleRemoveCommand"
  /\ RepeatsAloneHaveChildren(commands)
  /\ Cardinality(AllIds(commands)) = MaxNodes
  /\ Depth(commands) = 2

\* C14: recursiveUpdate on an id of the program changes the value of that
\* node and nothing else: not its type or children, nor any other node.
C14_UpdateChangesOneValue ==
  \A id \in AllIds(commands) : \A value \in {0, 2, 3, 180} :
    LET after == recursiveUpdate(commands, id, value) IN
    /\ TopIds(after) = TopIds(commands)
    /\ NodesOf(after, Null) =
         {IF n.id = id THEN [n EXCEPT !.value = value] ELSE n
            : n \in NodesOf(commands, Null)}

\* handleUpdateCommand has given a new value to a command two levels down
C14_Witness ==
  /\ lastOp = "handleUpdateCommand"
  /\ RepeatsAloneHaveChildren(commands)
  /\ \E n \in NodesOf(commands, Null) : \E m \in NodesOf(commands, Null) :
       /\ n.parent = m.id
       /\ m.parent # Null
       /\ n.value \notin {DefaultValue(n.type)}

\* the ids from the root of the program down to the node id
RECURSIVE PathTo(_, _)
PathTo(nodes, id) ==
  IF id = Null THEN {}
  ELSE {id} \cup PathTo(nodes, (CHOOSE n \in nodes : n.id = id).parent)

\* the Repeat commands of the program, which with Null are the containers
\* updateTree can be given
Containers(list) == {n.id : n \in {m \in NodesOf(list, Null) : m.type = "REPEAT"}}

\* C15: after recursiveUpdate, and likewise updateTree and recursiveFilter,
\* the only commands that are new objects are on the path from the root to the
\* command updated, to the container appended to, to the command removed.
C15_OnlyPathIsCopied ==
  LET nodes == NodesOf(commands, Null) IN
  /\ \A id \in AllIds(commands) :
       /\ recursiveUpdateNew(commands, id) \subseteq PathTo(nodes, id)
       /\ recursiveFilterNew(commands, id) \subseteq PathTo(nodes, id)
  /\ \A id \in Containers(commands) :
       updateTreeNew(commands, id) \subseteq PathTo(nodes, id)

\* the command updateTree is given by handleAddCommand
NewCommand(type) ==
  Command(nextId, type, DefaultValue(type), type = "REPEAT", <<>>)

\* C16: updateTree appends the command as the last of the top-level list when
\* the container is null, and as the last child of the Repeat of that id, at
\* whatever depth, otherwise; every command there was keeps its type, value,
\* parent and place.
C16_InsertAppends ==
  \A cid \in {Null} \cup Containers(commands) : \A type \in CommandType :
    LET new == NewCommand(type)
        after == updateTree(commands, cid, new)
    IN /\ TopIds(after) = IF cid = Null THEN Append(TopIds(commands), new.id)
                          ELSE TopIds(commands)
       /\ NodesOf(after, Null) =
            {IF n.id = cid THEN [n EXCEPT !.kids = Append(n.kids, new.id)] ELSE n
               : n \in NodesOf(commands, Null)} \cup {Node(new, cid)}

\* handleAddCommand has appended a child to a Repeat nested in a Repeat
C16_Witness ==
  /\ lastOp = "handleAddCommand"
  /\ RepeatsAloneHaveChildren(commands)
  /\ \E n \in NodesOf(commands, Null) :
       /\ n.id = activeContainerId
       /\ n.type = "REPEAT"
       /\ n.parent # Null
       /\ Len(n.kids) = 1

\* C17: updateTree given an id that is not null and is not the id of a Repeat
\* of the program returns the program as it was.
C17_InvalidContainerRejected ==
  \A cid \in Ids \ Containers(commands) : \A type \in CommandType :
    updateTree(commands, cid, NewCommand(type)) = commands

\* C18: in every program the editing handlers produce, a Forward, Backward,
\* TurnLeft or TurnRight command has no child list.
C18_LeavesHaveNoChildren ==
  \A n \in NodesOf(commands, Null) :
    n.type # "REPEAT" => ~n.hasChildren /\ n.kids = <<>>

\* handleAddCommand has appended a leaf command to the Repeat that is open,
\* itself inside a Repeat
C18_Witness ==
  /\ lastOp = "handleAddCommand"
  /\ \E n \in NodesOf(commands, Null) : \E m \in NodesOf(commands, Null) :
       /\ n.type # "REPEAT"
       /\ n.parent = activeContainerId
       /\ m.id = activeContainerId
       /\ m.parent # Null

\* C19: activeContainerId is null or the id of a Repeat command that is in
\* the program.
C19_ActiveContainerExists ==
  activeContainerId = Null \/ activeContainerId \in Containers(commands)

\* handleRemoveCommand has removed a child of the Repeat that is open and
\* holds another
C19_Witness ==
  /\ lastOp = "handleRemoveCommand"
  /\ activeContainerId # Null
  /\ \E n \in NodesOf(commands, Null) : n.parent = activeContainerId
  /\ Cardinality(AllIds(commands)) < nextId - 1

\* the signed amount of a sequence of turns, right positive and left negative
RECURSIVE NetTurn(_)
NetTurn(turns) ==
  IF turns = <<>> THEN 0
  ELSE (IF Head(turns).type = "TURN_RIGHT" THEN Head(turns).value
        ELSE 0 - Head(turns).value) + NetTurn(Tail(turns))

\* the program is one Repeat around a sequence of turns
RepeatOfTurns(program) ==
  /\ Len(program) = 1
  /\ program[1].type = "REPEAT"
  /\ program[1].children # <<>>
  /\ \A k \in 1..Len(program[1].children) : IsTurn(program[1].children[k].type)

\* C20: runSequence from FacingEast over a Repeat(n) around turns of signed
\* amount t publishes n poses for each turn, the last of them at the angle
\* FacingEast.angle + n * t, not reduced to any range, at the position it
\* started from, and leaves the path as it was.
C20_TurnsAccumulate ==
  \A r \in Started :
    runs[r].pc = "done" /\ RepeatOfTurns(runs[r].program)
      => LET n == runs[r].program[1].value
             turns == runs[r].program[1].children
             log == runs[r].log
         IN /\ Len(log) = n * Len(turns)
            /\ runs[r].pathAtEnd = InitialPath
            /\ path = InitialPath
            /\ n > 0 =>
                 /\ log[Len(log)].robot =
                      [FacingEast EXCEPT !.angle = FacingEast.angle + n * NetTurn(turns)]
                 /\ robotState = log[Len(log)].robot

\* Repeat(3) around [TurnRight(90)], run from angle 0, has ended at angle 270
C20_Witness ==
  /\ runs # <<>>
  /\ runs[1].pc = "done"
  /\ RepeatOfTurns(runs[1].program)
  /\ runs[1].program[1].value = 3
  /\ Len(runs[1].program[1].children) = 1
  /\ runs[1].program[1].children[1].type = "TURN_RIGHT"
  /\ runs[1].program[1].children[1].value = 90
  /\ robotState.angle = 270

(* --------------------------- the end-to-end run ------------------------ *)
\* [Forward(2), Repeat(2, [Right(90), Forward(1)])]
EndToEnd ==
  <<Leaf(1, "FORWARD", 2),
    Block(2, 2, <<Leaf(3, "TURN_RIGHT", 90), Leaf(4, "FORWARD", 1)>>)>>

EndToEndPoses ==
  << <<80, 0, 0>>, <<80, 0, 90>>, <<80, 40, 90>>, <<80, 40, 180>>,
     <<40, 40, 180>> >>

\* the poses a run has published, as (x, y, angle)
PosesOf(run) ==
  [k \in 1..Len(run.log) |->
     <<run.log[k].robot.x, run.log[k].robot.y, run.log[k].robot.angle>>]

\* the unit vector (cos angle, sin angle) of a heading along an axis
Heading(angle) ==
  CASE angle % 360 = 0 -> <<1, 0>>
    [] angle % 360 = 90 -> <<0, 1>>
    [] angle % 360 = 180 -> <<-1, 0>>
    [] angle % 360 = 270 -> <<0, -1>>

\* C21: run from (0, 0) facing angle 0 with cells of 40 units,
\* [Forward(2), Repeat(2, [Right(90), Forward(1)])] publishes (80,0,0),
\* (80,0,90), (80,40,90), (80,40,180), (40,40,180) one after the other and
\* nothing else, ending at angle 180; and in every run each move displaces the
\* position by value * 40 along (cos angle, sin angle), backwards for
\* BACKWARD, and leaves the angle as it was.
C21_EndToEndPoses ==
  \A r \in Started :
    /\ runs[r].program = EndToEnd
         => /\ IsPrefix(PosesOf(runs[r]), EndToEndPoses)
            /\ runs[r].pc = "done"
                 => /\ PosesOf(runs[r]) = EndToEndPoses
                    /\ robotState.angle = 180
    /\ \A k \in 1..Len(runs[r].log) :
         LET e == runs[r].log[k]
             before == IF k = 1 THEN ZeroPose ELSE runs[r].log[k - 1].robot
             cmd == findById(runs[r].program, e.id)[1]
             sign == IF e.type = "FORWARD" THEN 1 ELSE -1
         IN IsMove(e.type)
              => /\ e.robot.x = before.x
                      + sign * cmd.value * 40 * Heading(before.angle)[1]
                 /\ e.robot.y = before.y
                      + sign * cmd.value * 40 * Heading(before.angle)[2]
                 /\ e.robot.angle = before.angle

\* the end-to-end program has run to its end and left the robot at (40, 40)
C21_Witness ==
  /\ runs # <<>>
  /\ runs[1].program = EndToEnd
  /\ runs[1].pc = "done"
  /\ Len(runs[1].log) = 5
  /\ robotState.x = 40 /\ robotState.y = 40

\* C22: the engine awaits the inter-step delay once for each leaf command it
\* executes and nowhere else: whenever a run resumes from that delay it
\* applies one leaf command, so that no delay is spent on a Repeat.
C22_SuspendsOncePerLeaf ==
  [][\A r \in Started :
       runs[r].pc = "engine" /\ runs'[r].stack # runs[r].stack
         => Len(runs'[r].log) = Len(runs[r].log) + 1]_vars

\* C23: a run that handleStop was called on applies at most one leaf command
\* after the first such call, the one whose delay was being awaited, whatever
\* is clicked afterwards: a later handleRun does not make it go on with the
\* commands it had left.
C23_StoppedRunStaysStopped ==
  \A r \in Started :
    runs[r].stopped => Len(runs[r].log) <= runs[r].logAtStop + 1

\* C24: a run executes the program handleRun was called on.  The program of a
\* run is the value of commands at that call and never changes; a remove or
\* an update made while runs are in flight replaces commands and touches no
\* run; and what a run has applied is always the beginning of the expansion of
\* its own program, with the values that program holds.
C24_RunExecutesSnapshot ==
  /\ [][/\ lastOp' = "handleRun" /\ commands # <<>>
             => runs'[Len(runs')].program = commands
        /\ \A r \in InFlight : runs'[r].program = runs[r].program
        /\ lastOp' \in {"handleRemoveCommand", "handleUpdateCommand"}
             => runs' = runs /\ timers' = timers]_vars
  /\ [](\A r \in Started : IsPrefix(runs[r].log, FullLog(runs[r].program)))

\* the run has just applied a command that was removed from the stored
\* program, or given another value there, while the run was in flight
C24_Witness ==
  /\ Len(runs) = 1
  /\ runs[1].pc = "engine"
  /\ isPlaying
  /\ lastOp \in {"ExecMove", "ExecTurn"}
  /\ LET e == runs[1].log[Len(runs[1].log)]
         stored == findById(commands, e.id)
     IN \/ stored = <<>>
        \/ stored[1].value # findById(runs[1].program, e.id)[1].value

\* C25: isPlaying is true in exactly the states where a run is in flight: it
\* is never false while a handleRun invocation has yet to return, and never
\* true when none has.
C25_PlayingIffInFlight == isPlaying <=> InFlight # {}

\* C26: once handleClearAll has put the pose at the origin pose and the path
\* at [origin] they stay so until the next handleRun: the step that follows
\* handleClearAll, unless it is that handleRun, leaves them there, so that no
\* timer of an earlier run publishes a pose or appends a point after the clear.
C26_NothingPublishedAfterClear ==
  [][lastOp = "handleClearAll" /\ lastOp' # "handleRun"
       => robotState' = InitialRobot /\ path' = InitialPath]_vars

\* C27: the path is never empty, its first point is the origin and its last
\* point is the position (x, y) of the current pose, in every reachable state.
C27_PathEndsAtPose ==
  /\ path # <<>>
  /\ path[1] = Point(START_X, START_Y)
  /\ path[Len(path)] = Point(robotState.x, robotState.y)

====
